---- MODULE Spec2Model ----
(***************************************************************************)
(* HealthInsuraAI: the ReAct claim-processing agent (think -> act ->       *)
(* observe, src/agent/react_agent.py), the stage handlers it dispatches to *)
(* (src/processors) and the batch layer under them (src/utils/http_client).*)
(*                                                                         *)
(* Python values are modelled structurally: a dict is a TLA+ function (the *)
(* empty dict is <<>>), a list is a sequence, an f-string is the tuple of  *)
(* its fixed text and its interpolated values.  A call that raises is a    *)
(* record with raised = TRUE and the exception's class.                    *)
(***************************************************************************)
EXTENDS Integers, Sequences, FiniteSets, TLC

\* ---------------------------------------------------------------- bounds
MaxFiles == 2        \* longest uploaded file list (run_agent's argument)
MaxItems == 2        \* longest item list handed to a batch call
MaxWords == 2        \* longest reply handed to _parse_decision, in words

\* ------------------------------------------------------- program constants
MaxIterations == 10  \* react_agent.py: if state["iteration"] > 10

EmptyDict == <<>>

\* dict.get
Get(d, k, default) == IF k \in DOMAIN d THEN d[k] ELSE default

Range(s) == {s[i] : i \in 1..Len(s)}

SeqsUpTo(S, n) == UNION {[1..k -> S] : k \in 0..n}

\* ==========================================================================
\* src/utils/http_client.py
\* ==========================================================================

\* What one HTTP call meets: the outcome of open() and of requests.post().
\* "PermissionError" stands for every OSError of open() other than
\* FileNotFoundError (unreadable file, directory, ...).
\* "ok" is a 2xx answer whose JSON body carries a "text" key, "ok_other" a
\* 2xx answer whose body does not.
FileOutcomes == {"ok", "ok_other", "RequestException", "FileNotFoundError", "PermissionError"}
TextOutcomes == {"ok", "ok_other", "RequestException"}

NoExc == "none"

Returned(v) == [raised |-> FALSE, exc |-> NoExc, value |-> v]
Raised(e) == [raised |-> TRUE, exc |-> e, value |-> EmptyDict]

\* response.json() of the service for one request: a dict that answers that
\* request, with or without a "text" key.
ResponseJson(url, item, extra_data, out) ==
    IF out = "ok" THEN [text |-> <<url, item, extra_data>>]
    ELSE [data |-> <<url, item, extra_data>>]

call_api_with_file(url, file_path, extra_data, out) ==
    CASE out \in {"ok", "ok_other"} -> Returned(ResponseJson(url, file_path, extra_data, out))
      [] out = "RequestException" -> Returned([error |-> <<"RequestException", url>>])
      [] out = "FileNotFoundError" -> Returned([error |-> <<"File not found", file_path>>])
      [] OTHER -> Raised(out)   \* no except clause matches: propagates

call_api_with_text(url, text, extra_data, out) ==
    CASE out \in {"ok", "ok_other"} -> Returned(ResponseJson(url, text, extra_data, out))
      [] out = "RequestException" -> Returned([error |-> <<"RequestException", url>>])
      [] OTHER -> Raised(out)

\* A batch call's result: what it returns (or the exception it lets through)
\* and the calls it made, in the order it made them.
BatchResult(raised, exc, value, calls) ==
    [raised |-> raised, exc |-> exc, value |-> value, calls |-> calls]

\* [call_api_with_file(url, path, extra_data) for path in file_paths]: the
\* list is built item by item from item i on; outs[i] is what the i-th call
\* meets, value the list so far, calls the calls made so far.
RECURSIVE files_comprehension(_, _, _, _, _, _, _)
files_comprehension(url, file_paths, extra_data, outs, i, value, calls) ==
    IF i > Len(file_paths)
    THEN BatchResult(FALSE, NoExc, value, calls)
    ELSE IF call_api_with_file(url, file_paths[i], extra_data, outs[i]).raised
    THEN BatchResult(TRUE, call_api_with_file(url, file_paths[i], extra_data, outs[i]).exc,
                     <<>>, Append(calls, <<url, file_paths[i], extra_data>>))
    ELSE files_comprehension(url, file_paths, extra_data, outs, i + 1,
            Append(value, call_api_with_file(url, file_paths[i], extra_data, outs[i]).value),
            Append(calls, <<url, file_paths[i], extra_data>>))

process_files_batch(url, file_paths, extra_data, outs) ==
    files_comprehension(url, file_paths, extra_data, outs, 1, <<>>, <<>>)

RECURSIVE texts_comprehension(_, _, _, _, _, _, _)
texts_comprehension(url, texts, extra_data, outs, i, value, calls) ==
    IF i > Len(texts)
    THEN BatchResult(FALSE, NoExc, value, calls)
    ELSE IF call_api_with_text(url, texts[i], extra_data, outs[i]).raised
    THEN BatchResult(TRUE, call_api_with_text(url, texts[i], extra_data, outs[i]).exc,
                     <<>>, Append(calls, <<url, texts[i], extra_data>>))
    ELSE texts_comprehension(url, texts, extra_data, outs, i + 1,
            Append(value, call_api_with_text(url, texts[i], extra_data, outs[i]).value),
            Append(calls, <<url, texts[i], extra_data>>))

process_texts_batch(url, texts, extra_data, outs) ==
    texts_comprehension(url, texts, extra_data, outs, 1, <<>>, <<>>)

\* ==========================================================================
\* config/settings.py
\* ==========================================================================

\* settings.api.<name>: the endpoint URLs, named by their field.
Endpoints == {"ner", "classify", "summarize", "describe_image", "signature",
              "stamp", "extract_text", "extract_tables", "translate"}

default_start_page == 1
default_end_page == 10
language == "en"

\* ==========================================================================
\* the world a stage handler runs in
\* ==========================================================================

\* fs[p]: what open(p) does ("ok" or the exception it raises); net[u]: what
\* the service at endpoint u answers during this stage; llm: what the
\* decision LLM does (a reply, or an exception); disk: what writing the
\* reports does.
FileConds == {"ok", "FileNotFoundError", "PermissionError"}
NetConds == {"ok", "ok_other", "RequestException"}

\* what the i-th call of a file batch meets: open() comes before the request
FileOuts(env, url, paths) ==
    [i \in 1..Len(paths) |->
        IF env.fs[paths[i]] # "ok" THEN env.fs[paths[i]] ELSE env.net[url]]

TextOuts(env, url, texts) == [i \in 1..Len(texts) |-> env.net[url]]

\* ==========================================================================
\* src/processors/ingestion.py
\* ==========================================================================

RECURSIVE Truthy(_)
Truthy(file_paths) ==   \* [fp for fp in file_paths if fp]
    IF file_paths = <<>> THEN <<>>
    ELSE IF Head(file_paths) = "" THEN Truthy(Tail(file_paths))
         ELSE <<Head(file_paths)>> \o Truthy(Tail(file_paths))

ingest_files(file_paths) ==
    Returned([uploaded_files |-> Truthy(file_paths), documents |-> Truthy(file_paths)])

\* ==========================================================================
\* src/processors/preprocessing.py
\* ==========================================================================

split_documents(documents) ==
    [i \in 1..Len(documents) |-> [type |-> "unknown", path |-> documents[i]]]

describe_images(document_paths, env) ==
    process_files_batch("describe_image", document_paths, EmptyDict,
                        FileOuts(env, "describe_image", document_paths))

detect_stamps(document_paths, env) ==
    process_files_batch("stamp", document_paths, EmptyDict,
                        FileOuts(env, "stamp", document_paths))

verify_signatures(document_paths, env) ==
    process_files_batch("signature", document_paths, EmptyDict,
                        FileOuts(env, "signature", document_paths))

preprocess_documents(documents, env) ==
    LET images == describe_images(documents, env)
        stamps == detect_stamps(documents, env)
        sigs == verify_signatures(documents, env)
    IN IF images.raised THEN Raised(images.exc)
       ELSE IF stamps.raised THEN Raised(stamps.exc)
       ELSE IF sigs.raised THEN Raised(sigs.exc)
       ELSE Returned([processed_documents |-> split_documents(documents),
                      image_descriptions |-> images.value,
                      stamp_detections |-> stamps.value,
                      signature_verifications |-> sigs.value])

\* ==========================================================================
\* src/processors/extraction.py
\* ==========================================================================

PageRange == [start_page |-> default_start_page, end_page |-> default_end_page]

extract_text(document_paths, env) ==
    process_files_batch("extract_text", document_paths, PageRange,
                        FileOuts(env, "extract_text", document_paths))

extract_tables(document_paths, env) ==
    process_files_batch("extract_tables", document_paths, PageRange,
                        FileOuts(env, "extract_tables", document_paths))

translate_texts(texts, env) ==
    process_texts_batch("translate", texts, [target_language |-> language],
                        TextOuts(env, "translate", texts))

RECURSIVE RawTexts(_)
RawTexts(text_results) ==   \* [r.get("text", "") for r in text_results if "text" in r]
    IF text_results = <<>> THEN <<>>
    ELSE IF "text" \in DOMAIN Head(text_results)
         THEN <<Head(text_results).text>> \o RawTexts(Tail(text_results))
         ELSE RawTexts(Tail(text_results))

\* what extract_data does once its two file batches are back: raw_texts is
\* the list it hands to the translation
ExtractWith(text_results, table_results, raw_texts, env) ==
    LET translation_results ==
            IF raw_texts # <<>> THEN translate_texts(raw_texts, env)
            ELSE BatchResult(FALSE, NoExc, <<>>, <<>>)
    IN IF text_results.raised THEN Raised(text_results.exc)
       ELSE IF table_results.raised THEN Raised(table_results.exc)
       ELSE IF translation_results.raised THEN Raised(translation_results.exc)
       ELSE [raised |-> FALSE, exc |-> NoExc,
             value |-> [extracted_text |-> text_results.value,
                        extracted_tables |-> table_results.value,
                        translated_text |-> translation_results.value],
             \* the requests made, in the order they were made
             calls |-> text_results.calls \o table_results.calls
                           \o translation_results.calls]

\* mutant: every text result is translated, with or without a "text" key
extract_data_translates_every_result(documents, env) ==
    LET text_results == extract_text(documents, env)
    IN ExtractWith(text_results, extract_tables(documents, env),
                   [i \in 1..Len(text_results.value) |->
                        Get(text_results.value[i], "text", "")], env)

extract_data(documents, env) ==
    LET text_results == extract_text(documents, env)
    IN ExtractWith(text_results, extract_tables(documents, env),
                   RawTexts(text_results.value), env)

\* ==========================================================================
\* src/processors/intelligence.py
\* ==========================================================================

NoInput == BatchResult(FALSE, NoExc, <<[error |-> <<"No input provided", "">>]>>, <<>>)

\* called with texts only: document_paths is None
extract_entities(texts, env) ==
    IF texts # <<>> THEN process_texts_batch("ner", texts, EmptyDict, TextOuts(env, "ner", texts))
    ELSE NoInput

classify_documents(texts, env) ==
    IF texts # <<>>
    THEN process_texts_batch("classify", texts, EmptyDict, TextOuts(env, "classify", texts))
    ELSE NoInput

summarize(texts, env) ==
    IF texts # <<>>
    THEN process_texts_batch("summarize", texts, [start_page |-> 1, end_page |-> 1],
                             TextOuts(env, "summarize", texts))
    ELSE NoInput

\* No service answer of the model carries an "entities" key, so the mapping
\* loop leaves the claim as it is built.
structure_claim_json(entities, tables) ==
    [claim_json |-> [patient |-> EmptyDict, provider |-> EmptyDict, policy |-> EmptyDict,
                     diagnosis |-> <<>>, procedures |-> <<>>, amounts |-> EmptyDict,
                     dates |-> EmptyDict, tables |-> tables],
     raw_entities |-> entities, raw_tables |-> tables]

analyze_intelligence(extracted_texts, extracted_tables, documents, env) ==
    LET entities == extract_entities(extracted_texts, env)
        classifications == classify_documents(extracted_texts, env)
        summaries == summarize(extracted_texts, env)
    IN IF entities.raised THEN Raised(entities.exc)
       ELSE IF classifications.raised THEN Raised(classifications.exc)
       ELSE IF summaries.raised THEN Raised(summaries.exc)
       ELSE Returned([entities |-> entities.value,
                      classifications |-> classifications.value,
                      claim_json |-> structure_claim_json(entities.value, extracted_tables),
                      summaries |-> summaries.value])

\* ==========================================================================
\* src/processors/decision.py
\* ==========================================================================

\* A reply of the decision LLM is a sequence of words.
Words == {"Approve", "reject", "Reasons:"}

Lower(w) ==   \* str.lower()
    CASE w = "Approve" -> "approve"
      [] w = "Reasons:" -> "reasons:"
      [] OTHER -> w

\* needle in text, for a lower-cased text
Contains(text, needle) == \E i \in 1..Len(text) : Lower(text[i]) = needle

\* index of the first "Reasons:" of the text as written, 0 if there is none
FirstReasons(response_text) ==
    IF \E i \in 1..Len(response_text) : response_text[i] = "Reasons:"
    THEN CHOOSE i \in 1..Len(response_text) :
            /\ response_text[i] = "Reasons:"
            /\ \A j \in 1..(i - 1) : response_text[j] # "Reasons:"
    ELSE 0

_parse_decision(response_text) ==
    LET decision == IF Contains(response_text, "approve") THEN "approve"
                    ELSE IF Contains(response_text, "reject") THEN "reject"
                    ELSE "query"
        k == FirstReasons(response_text)
        reasons == IF k > 0 THEN SubSeq(response_text, k + 1, Len(response_text))
                   ELSE response_text
    IN <<decision, reasons>>

LLMError == "LLMError"

\* the replies the decision LLM gives in a run
Replies == {<<>>, <<"reject">>, <<"Approve", "Reasons:", "reject">>}

\* llm: what llm.invoke does, raise or return a reply
make_decision(claim_json, llm) ==
    IF llm.raised THEN Raised(LLMError)
    ELSE LET parsed == _parse_decision(llm.reply)
         IN Returned([decision |-> parsed[1], reasons |-> parsed[2]])

\* ==========================================================================
\* src/processors/output.py
\* ==========================================================================

generate_report(claim_data, decision, reasons, env) ==
    IF env.disk # "ok" THEN Raised(env.disk)
    ELSE LET claim_id == Get(claim_data, "claim_id", "unknown")
         IN Returned([json_report |-> <<"report", claim_id, "json">>,
                      pdf_report |-> <<"report", claim_id, "pdf">>])

store_to_database(data) == TRUE

generate_output(claim_data, decision, reasons, env) ==
    LET reports == generate_report(claim_data, decision, reasons, env)
    IN IF reports.raised THEN Raised(reports.exc)
       ELSE Returned([reports |-> reports.value,
                      stored_in_db |-> store_to_database(claim_data)])

\* ==========================================================================
\* src/agent/react_agent.py: execute_action
\* ==========================================================================

KnownActions == {"ingest", "preprocess", "extract", "analyze", "decide", "output", "finish"}

\* What execute_action does: the observation it returns (or the exception a
\* handler lets through) and state["claim_decision"] after it.
Executed(observation, claim_decision) ==
    [raised |-> FALSE, exc |-> NoExc, observation |-> observation,
     claim_decision |-> claim_decision]

Failed(exc, claim_decision) ==
    [raised |-> TRUE, exc |-> exc, observation |-> <<>>, claim_decision |-> claim_decision]

COMPLETE == <<"COMPLETE">>

\* the seven branches of execute_action that name an action
execute_known(action, action_input, claim_decision, env) ==
    LET files == Get(action_input, "files", <<>>) IN
    CASE action = "ingest" ->
            LET result == ingest_files(files)
            IN Executed(<<"Ingested files", Len(result.value.documents)>>, claim_decision)
      [] action = "preprocess" ->
            LET result == preprocess_documents(files, env)
            IN IF result.raised THEN Failed(result.exc, claim_decision)
               ELSE Executed(<<"Preprocessed documents",
                               Len(result.value.stamp_detections),
                               Len(result.value.signature_verifications)>>, claim_decision)
      [] action = "extract" ->
            LET result == extract_data(files, env)
            IN IF result.raised THEN Failed(result.exc, claim_decision)
               ELSE Executed(<<"Extracted text and tables",
                               Len(result.value.extracted_text),
                               Len(result.value.extracted_tables)>>, claim_decision)
      [] action = "analyze" ->
            LET texts == Get(action_input, "texts", <<>>)
                tables == Get(action_input, "tables", <<>>)
                result == analyze_intelligence(texts, tables, files, env)
            IN IF result.raised THEN Failed(result.exc, claim_decision)
               ELSE Executed(<<"Analysis complete", Len(result.value.entities)>>,
                             claim_decision)
      [] action = "decide" ->
            LET claim_json == Get(action_input, "claim_json", EmptyDict)
                result == make_decision(claim_json, env.llm)
            IN IF result.raised THEN Failed(result.exc, claim_decision)
               ELSE Executed(<<"Decision", result.value.decision, result.value.reasons>>,
                             result.value)
      [] action = "output" ->
            LET claim_data == Get(action_input, "claim_data", EmptyDict)
                decision == Get(action_input, "decision", "query")
                reasons == Get(action_input, "reasons", "")
                result == generate_output(claim_data, decision, reasons, env)
            IN IF result.raised THEN Failed(result.exc, claim_decision)
               ELSE Executed(<<"Reports generated", DOMAIN result.value.reports,
                               result.value.stored_in_db>>, claim_decision)
      [] action = "finish" -> Executed(COMPLETE, claim_decision)

\* mutant: the final else falls through to the finish branch
execute_action_unknown_completes(action, action_input, claim_decision, env) ==
    IF action \in KnownActions
    THEN execute_known(action, action_input, claim_decision, env)
    ELSE Executed(COMPLETE, claim_decision)

\* mutant: the decide branch does not store its result in the state
execute_action_decision_not_stored(action, action_input, claim_decision, env) ==
    LET r == IF action \in KnownActions
             THEN execute_known(action, action_input, claim_decision, env)
             ELSE Executed(<<"Unknown action", action>>, claim_decision)
    IN IF r.raised THEN r ELSE Executed(r.observation, claim_decision)

\* mutant: the decide branch merges its result into the record it finds
execute_action_merges_decision(action, action_input, claim_decision, env) ==
    LET r == IF action \in KnownActions
             THEN execute_known(action, action_input, claim_decision, env)
             ELSE Executed(<<"Unknown action", action>>, claim_decision)
    IN IF r.raised THEN r ELSE Executed(r.observation, claim_decision @@ r.claim_decision)

execute_action(action, action_input, claim_decision, env) ==
    IF action \in KnownActions
    THEN execute_known(action, action_input, claim_decision, env)
    ELSE Executed(<<"Unknown action", action>>, claim_decision)

\* ==========================================================================
\* the decision oracle's response (response.content of think_node)
\* ==========================================================================

\* A JSON value that is not a dict (null, a number, a string, a list).
Null == [not_a_dict |-> TRUE]

\* A response's content is a sequence of tokens: a code fence ```, the word
\* json, white space, prose, or the text of one complete JSON value.
Fence == [t |-> "fence", v |-> EmptyDict]
JsonWord == [t |-> "json", v |-> EmptyDict]
Ws == [t |-> "ws", v |-> EmptyDict]
Prose == [t |-> "prose", v |-> EmptyDict]
ValueTok(v) == [t |-> "value", v |-> v]
\* The text of a JSON object whose "thought" string itself holds a fenced
\* snippet is cut by that snippet's fences: Open(v) is the text of v up to
\* the first of them, Close(v) the text after the second.
Open(v) == [t |-> "open", v |-> v]
Close(v) == [t |-> "close", v |-> v]

\* The JSON objects the oracle may write.  Each of the three keys may be
\* missing; "thought" may be a number and "action_input" no mapping.  The
\* mappings are the ones a stage looks at: "files" for the stages that read
\* files, "texts" for analyze.
JStr(s) == [str |-> s]   \* a JSON string
OracleFileLists == {<<>>, <<"x.pdf", "">>}
FileDicts == {[files |-> l] : l \in OracleFileLists}
InputsFor(a) ==
    {EmptyDict, Null}
        \cup (IF a \in {"ingest", "preprocess", "extract"} THEN FileDicts ELSE {})
        \cup (IF a = "analyze" THEN {[texts |-> <<"t1">>]} ELSE {})
ActionNames == KnownActions \cup {"bogus"}
Proposals ==
    {[thought |-> JStr("reasoning"), action |-> a, action_input |-> i] :
        a \in ActionNames, i \in UNION {InputsFor(b) : b \in ActionNames}}
WellAimed(o) == o.action_input \in InputsFor(o.action)
JsonObjects ==
    {o \in Proposals : WellAimed(o)}
        \cup {[thought |-> JStr("reasoning"), action |-> a] : a \in ActionNames}
        \cup {[thought |-> JStr("reasoning")], EmptyDict,
              [action |-> "ingest", action_input |-> EmptyDict],
              [thought |-> Null, action |-> "ingest", action_input |-> EmptyDict]}
JsonValues == JsonObjects \cup {Null}

\* thought strings that quote a fenced snippet, and the JSON value each quotes
Quotes == {"quotes {} in fences", "quotes 7 in fences"}
QuotedBy(s) == IF s = "quotes {} in fences" THEN EmptyDict ELSE Null

\* json.dumps: the text of a JSON value
Text(v) ==
    IF "thought" \in DOMAIN v /\ v.thought \in {JStr(q) : q \in Quotes}
    THEN <<Open(v), Fence, ValueTok(QuotedBy(v.thought.str)), Fence, Close(v)>>
    ELSE <<ValueTok(v)>>

Bare(v) == <<ValueTok(v)>>
FencedJson(v) == <<Fence, JsonWord, Ws, ValueTok(v), Ws, Fence>>
FencedPlain(v) == <<Fence, Ws, ValueTok(v), Ws, Fence>>
Chatty(v) == <<Prose, Ws, Fence, JsonWord, Ws, ValueTok(v), Ws, Fence, Ws, Prose>>
NotJson == {<<>>, <<Prose>>, <<Prose, Ws, ValueTok(EmptyDict)>>,
            <<Fence, JsonWord, Prose, Fence>>}

\* every value bare, and in each wrapping the values that decide a parse
Wrapped == {[action |-> "ingest", action_input |-> EmptyDict], Null,
            [thought |-> JStr("reasoning"), action |-> "bogus"]}
Contents ==
    {Bare(v) : v \in JsonValues} \cup {FencedJson(v) : v \in Wrapped}
        \cup {FencedPlain(v) : v \in Wrapped} \cup {Chatty(v) : v \in Wrapped}
        \cup NotJson

\* ------------------------------------------------------- str and json
RECURSIVE LStrip(_)
LStrip(c) == IF c # <<>> /\ Head(c).t = "ws" THEN LStrip(Tail(c)) ELSE c

RECURSIVE RStrip(_)
RStrip(c) ==
    IF c # <<>> /\ c[Len(c)].t = "ws" THEN RStrip(SubSeq(c, 1, Len(c) - 1)) ELSE c

Strip(c) == RStrip(LStrip(c))   \* str.strip()

\* positions where "```json" and "```" start
JsonFenceAt(c) == {i \in 1..(Len(c) - 1) : c[i].t = "fence" /\ c[i + 1].t = "json"}
FenceAt(c) == {i \in 1..Len(c) : c[i].t = "fence"}

Min(S) == CHOOSE x \in S : \A y \in S : x <= y

\* c.split("```json")[1]: from the end of the first "```json" to the next one
AfterJsonFence(c) ==
    LET i == Min(JsonFenceAt(c))
        later == {j \in JsonFenceAt(c) : j > i + 1}
    IN SubSeq(c, i + 2, IF later = {} THEN Len(c) ELSE Min(later) - 1)

\* c.split("```")[1]: from the end of the first "```" to the next one
AfterFence(c) ==
    LET i == Min(FenceAt(c))
        later == {j \in FenceAt(c) : j > i}
    IN SubSeq(c, i + 1, IF later = {} THEN Len(c) ELSE Min(later) - 1)

\* c.split("```")[0]: up to the first "```"
BeforeFence(c) ==
    IF FenceAt(c) = {} THEN c ELSE SubSeq(c, 1, Min(FenceAt(c)) - 1)

\* json.loads: one JSON value, white space around it allowed
JSONDecodeError == "JSONDecodeError"
json_loads(c) ==
    LET body == Strip(c)
    IN IF Len(body) = 1 /\ body[1].t = "value" THEN Returned(body[1].v)
       ELSE IF Len(body) = 5 /\ body[1].t = "open" /\ body = Text(body[1].v)
       THEN Returned(body[1].v)
       ELSE Raised(JSONDecodeError)

\* ==========================================================================
\* src/agent/react_agent.py: the graph
\* ==========================================================================

VARIABLES
    messages, current_step, thought, action, action_input, observation,
    iteration, is_complete, final_result, claim_decision,   \* AgentState
    pc,        \* the node the graph runs next, "END", or how run_agent left
    raised,    \* the exception that left run_agent, if one did
    result,    \* what run_agent returned
    batch,     \* the batch call last made directly (not by a stage)
    called     \* the call last made directly to a function below the graph

state == <<messages, current_step, thought, action, action_input, observation,
           iteration, is_complete, final_result, claim_decision>>
vars == <<state, pc, raised, result, batch, called>>

\* the files a request uploads: main.py hands run_agent its temp files
UploadNames == <<"a.pdf", "b.pdf", "c.pdf", "d.pdf">>
UploadLists == {SubSeq(UploadNames, 1, n) : n \in 1..MaxFiles}

NoBatch == [fn |-> "none", url |-> "", items |-> <<>>, extra_data |-> EmptyDict,
            outs |-> <<>>, ret |-> BatchResult(FALSE, NoExc, <<>>, <<>>)]

NoCall == [fn |-> "none"]

\* run_agent: initial_state, and the graph entered at think (START -> think)
Init ==
    /\ \E uploaded_files \in UploadLists : messages = <<[files |-> uploaded_files]>>
    /\ current_step = "start"
    /\ thought = ""
    /\ action = ""
    /\ action_input = EmptyDict
    /\ observation = <<>>
    /\ iteration = 0
    /\ is_complete = FALSE
    /\ final_result = EmptyDict
    /\ claim_decision = EmptyDict
    /\ pc = "think"
    /\ raised = [node |-> "", exc |-> NoExc]
    /\ result = EmptyDict
    /\ batch = NoBatch
    /\ called = NoCall

\* An exception leaves the node, the graph and run_agent: nothing of the
\* node's work is kept and nothing is returned.
Propagate(node, exc) ==
    /\ pc' = "raised"
    /\ raised' = [node |-> node, exc |-> exc]
    /\ UNCHANGED <<state, result, batch, called>>

FailedThought == "Failed to parse response, finishing."

\* think_node's try block on response.content
Parsed(thought_, action_, action_input_) ==
    [raised |-> FALSE, exc |-> NoExc, thought |-> thought_, action |-> action_,
     action_input |-> action_input_]

ParseRaised(exc) ==
    [raised |-> TRUE, exc |-> exc, thought |-> "", action |-> "", action_input |-> EmptyDict]

ParseResponse(response_content) ==
    LET stripped == Strip(response_content)
        content == IF JsonFenceAt(stripped) # {} THEN BeforeFence(AfterJsonFence(stripped))
                   ELSE IF FenceAt(stripped) # {} THEN BeforeFence(AfterFence(stripped))
                   ELSE stripped
        loaded == json_loads(content)
        parsed == loaded.value
    IN IF loaded.raised                      \* except json.JSONDecodeError
       THEN Parsed(FailedThought, "finish", EmptyDict)
       ELSE IF parsed = Null                 \* parsed.get on a non-dict
       THEN ParseRaised("AttributeError")
       ELSE IF Get(parsed, "thought", JStr("")) = Null   \* state['thought'][:200]
       THEN ParseRaised("TypeError")
       ELSE Parsed(Get(parsed, "thought", JStr("")).str, Get(parsed, "action", "finish"),
                   Get(parsed, "action_input", EmptyDict))

\* think_node once llm.invoke has returned response_content
ThinkWith(response_content) ==
    LET p == ParseResponse(response_content)
    IN IF p.raised THEN Propagate("think", p.exc)
       ELSE /\ thought' = p.thought
            /\ action' = p.action
            /\ action_input' = p.action_input
            /\ pc' = "act"
            /\ UNCHANGED <<messages, current_step, observation, iteration,
                           is_complete, final_result, claim_decision,
                           raised, result, batch, called>>

think_node ==
    /\ pc = "think"
    /\ \/ Propagate("think", LLMError)       \* llm.invoke raises
       \/ \E response_content \in Contents : ThinkWith(response_content)

\* The worlds a stage can meet, as far as the stage looks at them.
LLMOutcomes ==
    {[raised |-> TRUE, reply |-> <<>>]}
        \cup {[raised |-> FALSE, reply |-> r] : r \in Replies}
NetStates == {[u \in Endpoints |-> c] : c \in NetConds}
FsStates(files) ==
    {fs \in [Range(files) -> FileConds] :
        \A p \in Range(files) : p = "" => fs[p] = "FileNotFoundError"}
DiskConds == {"ok", "OSError"}

Envs(action_, files) ==
    {[fs |-> f, net |-> n, llm |-> l, disk |-> d] :
        f \in IF action_ \in {"preprocess", "extract"} THEN FsStates(files)
              ELSE {[p \in Range(files) |-> "ok"]},
        n \in IF action_ \in {"preprocess", "extract", "analyze"} THEN NetStates
              ELSE {[u \in Endpoints |-> "ok"]},
        l \in IF action_ = "decide" THEN LLMOutcomes
              ELSE {[raised |-> FALSE, reply |-> <<>>]},
        d \in IF action_ = "output" THEN DiskConds ELSE {"ok"}}

\* action_input once act_node has added the files of the initial message
WithFiles(action_input_, messages_) ==
    IF "files" \notin DOMAIN action_input_ /\ messages_ # <<>>
    THEN action_input_ @@ [files |-> Get(messages_[1], "files", <<>>)]
    ELSE action_input_

act_node ==
    /\ pc = "act"
    /\ IF action_input = Null               \* "files" not in action_input
       THEN Propagate("act", "TypeError")
       ELSE \E with_files \in {WithFiles(action_input, messages)} :
            \E env \in Envs(action, Get(with_files, "files", <<>>)) :
            \E r \in {execute_action(action, with_files, claim_decision, env)} :
                IF r.raised THEN Propagate("act", r.exc)
                ELSE /\ action_input' = with_files
                     /\ claim_decision' = r.claim_decision
                     /\ observation' = r.observation
                     /\ current_step' = action
                     /\ pc' = "observe"
                     /\ UNCHANGED <<messages, thought, action, iteration, is_complete,
                                    final_result, raised, result, batch, called>>

should_continue(is_complete_) == IF is_complete_ THEN "end" ELSE "think"

\* observe_node, and the conditional edge that follows it; incremented is
\* state["iteration"] after "+= 1", capped the test of the safety check and
\* steps_taken what an explicit finish records.
ObserveStep(incremented, capped, steps_taken) ==
    /\ pc = "observe"
    /\ LET finished == observation = COMPLETE \/ action = "finish"
           complete == finished \/ is_complete \/ capped
       IN /\ iteration' = incremented
          /\ is_complete' = complete
          /\ final_result' =
                IF capped THEN [status |-> "max_iterations_reached"]
                ELSE IF finished
                THEN [status |-> "complete", steps_taken |-> steps_taken,
                      last_step |-> current_step, last_observation |-> observation]
                ELSE final_result
          /\ pc' = IF should_continue(complete) = "end" THEN "END" ELSE "think"
    /\ UNCHANGED <<messages, current_step, thought, action, action_input, observation,
                   claim_decision, raised, result, batch, called>>

\* mutant: the safety check reads the counter before the increment
observe_node_checks_before_increment ==
    ObserveStep(iteration + 1, iteration > MaxIterations, iteration)

\* mutant: the increment is lost
observe_node_without_increment ==
    ObserveStep(iteration, iteration > MaxIterations, iteration)

\* mutant: steps_taken is read after the increment
observe_node_counts_the_finish_cycle ==
    ObserveStep(iteration + 1, iteration + 1 > MaxIterations, iteration + 1)

observe_node ==
    ObserveStep(iteration + 1, iteration + 1 > MaxIterations, iteration)

\* agent.invoke returns at END and run_agent builds its return value
run_agent_return ==
    /\ pc = "END"
    /\ result' = [claim_decision |-> claim_decision,
                  status |-> IF is_complete THEN "completed" ELSE "incomplete",
                  iterations |-> iteration]
    /\ pc' = "returned"
    /\ UNCHANGED <<state, raised, batch, called>>

Next == think_node \/ act_node \/ observe_node \/ run_agent_return

Spec == Init /\ [][Next]_vars

\* The graph runs its nodes one after the other: a node whose turn it is runs.
FairSpec == Spec /\ WF_vars(Next)

\* A stubbed oracle that proposes the stages in pipeline order, then finish.
Script == <<"ingest", "preprocess", "extract", "analyze", "decide", "output", "finish">>

ScriptedContents(k) ==
    {Bare(o) : o \in {p \in Proposals : WellAimed(p) /\ p.action = Script[k]
                                           /\ p.action_input # Null}}

think_scripted ==
    /\ pc = "think"
    /\ iteration < Len(Script)
    /\ \E response_content \in ScriptedContents(iteration + 1) : ThinkWith(response_content)

ScriptedNext == think_scripted \/ act_node \/ observe_node \/ run_agent_return

ScriptedSpec == Init /\ [][ScriptedNext]_vars

Terminal == is_complete /\ pc \in {"END", "returned"}
Status(d) == Get(d, "status", "")

\* C1: the iteration counter never exceeds 11; the run is terminal as soon as
\* the counter is greater than 10 after observe_node's increment, and no
\* think or act runs once the run is terminal.
C1_IterationCap ==
    /\ iteration <= MaxIterations + 1
    /\ iteration > MaxIterations => Terminal
    /\ is_complete => pc \notin {"think", "act", "observe"}

C1_Witness == iteration = MaxIterations + 1 /\ pc = "returned"

\* How a run can leave the claim's proviso: a call that does not return,
\* or an oracle response that is no proposal (no object, a thought that is
\* no text, an action_input that is no mapping).
OracleCallRaised == pc = "raised" /\ raised.node = "think" /\ raised.exc = LLMError
NotAProposal ==
    /\ pc = "raised"
    /\ \/ raised.node = "think" /\ raised.exc \in {"AttributeError", "TypeError"}
       \/ raised.node = "act" /\ action_input = Null
StageExceptions == {"PermissionError", LLMError, "OSError"}
StageCallRaised ==
    pc = "raised" /\ raised.node = "act" /\ raised.exc \in StageExceptions
        /\ action_input # Null

\* C2: every run whose oracle and stage calls all return reaches the terminal
\* state, whatever the oracle proposes and however the stage calls fail.
C2_EventuallyTerminal ==
    <>(Terminal \/ OracleCallRaised \/ StageCallRaised \/ NotAProposal)

\* a run ended by the cap alone, its last stage call answered with failures
C2_Witness ==
    /\ pc = "returned"
    /\ Status(final_result) = "max_iterations_reached"
    /\ action = "preprocess"
    /\ claim_decision = EmptyDict

\* C3: no exception of a stage handler or of the batch layer leaves act_node:
\* the cycle goes on to observe_node with an observation.
C3_StageExceptionsAreObserved == ~StageCallRaised

\* C4: on a response that is no valid structured proposal think_node does not
\* raise; it proposes finish with an empty action_input, and the run ends in
\* that cycle as an explicit finish with an empty decision record.
C4_BadResponseFinishes ==
    /\ ~NotAProposal
    /\ pc = "act" => action_input # Null
    /\ (pc = "act" /\ thought = FailedThought) =>
            action = "finish" /\ action_input = EmptyDict
    /\ (pc \in {"END", "returned"} /\ thought = FailedThought) =>
            /\ is_complete
            /\ Status(final_result) = "complete"
            /\ claim_decision = EmptyDict

Decisions == {"approve", "query", "reject"}

ScriptedRunReturned == pc = "returned" /\ Len(messages[1].files) = 2

C8_CapIsReported ==
    (pc = "returned" /\ Status(final_result) = "max_iterations_reached") =>
        Status(result) = "max_iterations_reached"

\* C9: a run whose oracle proposed finish is terminal with the explicit
\* finish reason, at every iteration count, and that reason stays.
C9_FinishIsExplicit ==
    (pc \in {"END", "returned"} /\ action = "finish") =>
        is_complete /\ Status(final_result) = "complete"

\* C10: a proposal whose action is none of the seven known names gives the
\* observation naming it, leaves the run going unless the cap is exceeded,
\* and the oracle is consulted again with that observation.
C10_UnknownActionContinues ==
    /\ (pc = "observe" /\ action \notin KnownActions) =>
            observation = <<"Unknown action", action>>
    /\ (pc = "think" /\ iteration > 0 /\ current_step \notin KnownActions) =>
            ~is_complete /\ observation = <<"Unknown action", current_step>>
    /\ (pc \in {"END", "returned"} /\ action \notin KnownActions) =>
            iteration > MaxIterations
    /\ (pc = "raised" /\ raised.node = "act" /\ action \notin KnownActions) =>
            action_input = Null

C10_Witness ==
    pc = "think" /\ iteration > 0 /\ current_step = "bogus"
        /\ observation = <<"Unknown action", "bogus">>

\* ==========================================================================
\* the batch layer called directly: src/utils/http_client.py
\* ==========================================================================

BatchPaths == {"a.pdf", "b.pdf"}
BatchTexts == {"t1", "t2"}
ExtraData == {EmptyDict, PageRange}

BatchCall(fn, url, items, extra_data, outs, ret) ==
    [fn |-> fn, url |-> url, items |-> items, extra_data |-> extra_data,
     outs |-> outs, ret |-> ret]

process_files_batch_call ==
    /\ \E file_paths \in SeqsUpTo(BatchPaths, MaxItems), extra_data \in ExtraData :
        \E outs \in [1..Len(file_paths) -> FileOutcomes] :
            batch' = BatchCall("process_files_batch", "stamp", file_paths, extra_data, outs,
                               process_files_batch("stamp", file_paths, extra_data, outs))
    /\ UNCHANGED <<state, pc, raised, result, called>>

process_texts_batch_call ==
    /\ \E texts \in SeqsUpTo(BatchTexts, MaxItems), extra_data \in ExtraData :
        \E outs \in [1..Len(texts) -> TextOutcomes] :
            batch' = BatchCall("process_texts_batch", "ner", texts, extra_data, outs,
                               process_texts_batch("ner", texts, extra_data, outs))
    /\ UNCHANGED <<state, pc, raised, result, called>>

BatchNext == process_files_batch_call \/ process_texts_batch_call

BatchSpec == Init /\ [][BatchNext]_vars

\* what the call made for item i of the batch gave
OutcomeOf(b, i) ==
    IF b.fn = "process_files_batch"
    THEN call_api_with_file(b.url, b.items[i], b.extra_data, b.outs[i])
    ELSE call_api_with_text(b.url, b.items[i], b.extra_data, b.outs[i])

\* one call per item, in input order
OnePerItem(b) == [i \in 1..Len(b.items) |-> <<b.url, b.items[i], b.extra_data>>]

\* C5: a batch call attempts every item exactly once, in input order, and
\* returns one result per item, the result at index i being the outcome of
\* the call made for item i; an empty input gives an empty result and no call.
C5_EveryItemOnceInOrder ==
    batch.fn # "none" =>
        /\ batch.ret.calls = OnePerItem(batch)
        /\ ~batch.ret.raised
        /\ Len(batch.ret.value) = Len(batch.items)
        /\ \A i \in 1..Len(batch.items) : batch.ret.value[i] = OutcomeOf(batch, i).value
        /\ batch.items = <<>> => batch.ret.value = <<>> /\ batch.ret.calls = <<>>

\* the indices whose file cannot be opened
Unopenable(b) ==
    {i \in 1..Len(b.items) : b.outs[i] \in {"FileNotFoundError", "PermissionError"}}

\* C6: with exactly one item whose file cannot be opened, process_files_batch
\* does not raise, holds a failure marker at that index, and every other
\* index holds the outcome of its own call.
C6_OneBadFileIsIsolated ==
    (batch.fn = "process_files_batch" /\ Cardinality(Unopenable(batch)) = 1) =>
        /\ ~batch.ret.raised
        /\ Len(batch.ret.value) = Len(batch.items)
        /\ \A i \in 1..Len(batch.items) :
            IF i \in Unopenable(batch)
            THEN "error" \in DOMAIN batch.ret.value[i]
            ELSE batch.ret.value[i] = OutcomeOf(batch, i).value

\* ==========================================================================
\* functions below the graph, called directly
\* ==========================================================================

\* the text of a payload inside a code fence, with and without the line
\* breaks and the word json
InJsonFence(text) == <<Fence, JsonWord, Ws>> \o text \o <<Ws, Fence>>
InJsonFenceTight(text) == <<Fence, JsonWord>> \o text \o <<Fence>>
InFence(text) == <<Fence, Ws>> \o text \o <<Ws, Fence>>
InFenceTight(text) == <<Fence>> \o text \o <<Fence>>

Wrappings == {"json fence", "json fence, tight", "fence", "fence, tight"}
Wrap(wrapping, text) ==
    CASE wrapping = "json fence" -> InJsonFence(text)
      [] wrapping = "json fence, tight" -> InJsonFenceTight(text)
      [] wrapping = "fence" -> InFence(text)
      [] wrapping = "fence, tight" -> InFenceTight(text)

\* valid structured payloads: an object with a text thought, an action and
\* a mapping as action_input
Payloads ==
    {o \in Proposals : WellAimed(o) /\ o.action_input # Null}
        \cup {[thought |-> JStr(q), action |-> "decide", action_input |-> EmptyDict] :
                q \in Quotes}

\* Each behaviour makes one direct call.

\* think_node's parse of one payload, alone and wrapped
think_node_parse_call ==
    /\ called = NoCall
    /\ \E payload \in Payloads, wrapping \in Wrappings :
        called' = [fn |-> "think_node", payload |-> payload, wrapping |-> wrapping,
                   alone |-> ParseResponse(Text(payload)),
                   wrapped |-> ParseResponse(Wrap(wrapping, Text(payload)))]
    /\ UNCHANGED <<state, pc, raised, result, batch>>

_parse_decision_call ==
    /\ called = NoCall
    /\ \E response_text \in SeqsUpTo(Words, MaxWords) :
        called' = [fn |-> "_parse_decision", response_text |-> response_text,
                   ret |-> _parse_decision(response_text)]
    /\ UNCHANGED <<state, pc, raised, result, batch>>

\* the worlds of an extraction: each of its three services answers its own way
ExtractEnvs(documents) ==
    {[fs |-> f, disk |-> "ok", llm |-> [raised |-> FALSE, reply |-> <<>>],
      net |-> [u \in Endpoints |-> IF u = "extract_text" THEN c[1]
                                   ELSE IF u = "translate" THEN c[2] ELSE c[3]]] :
        f \in FsStates(documents), c \in NetConds \X NetConds \X NetConds}

extract_data_call ==
    /\ called = NoCall
    /\ \E documents \in SeqsUpTo(BatchPaths, MaxFiles) :
        \E env \in ExtractEnvs(documents) :
            called' = [fn |-> "extract_data", documents |-> documents, env |-> env,
                       ret |-> extract_data(documents, env)]
    /\ UNCHANGED <<state, pc, raised, result, batch>>

ClaimInputs == {EmptyDict, [claim_json |-> [claim_id |-> "c1"]]}

\* two cycles of one run that both execute decide on the same action_input:
\* act_node hands execute_action the state the first cycle left
decide_twice_call ==
    /\ called = NoCall
    /\ \E input \in ClaimInputs :
       \E first \in Envs("decide", <<>>), second \in Envs("decide", <<>>) :
       \E r1 \in {execute_action("decide", input, EmptyDict, first)} :
            /\ ~r1.raised
            /\ called' = [fn |-> "decide_twice", action_input |-> input,
                          first_llm |-> first.llm, second_llm |-> second.llm,
                          first |-> r1,
                          second |-> execute_action("decide", input, r1.claim_decision,
                                                    second)]
    /\ UNCHANGED <<state, pc, raised, result, batch>>

CallNext ==
    think_node_parse_call \/ _parse_decision_call \/ extract_data_call \/ decide_twice_call

CallSpec == Init /\ [][CallNext]_vars

\* C11: a valid structured payload wrapped in a code fence (``` or ```json)
\* gives think_node the same thought, action and action_input as the
\* payload alone.
C11_FencedParsesAsAlone ==
    called.fn = "think_node" => called.wrapped = called.alone

DecideRan == pc = "act" /\ action = "decide" /\ pc' = "observe"

\* C12: the decision record is empty when the run starts, becomes non-empty
\* when the decide stage executes, and no step other than an execution of
\* decide changes it: it is non-empty exactly if decide has executed.
C12_DecisionRecordIffDecided ==
    /\ claim_decision = EmptyDict
    /\ [][/\ claim_decision' # claim_decision => DecideRan
          /\ DecideRan => claim_decision' # EmptyDict]_vars

\* decide has executed, and a later stage has left its record alone
C12_Witness ==
    pc = "think" /\ current_step = "output" /\ claim_decision # EmptyDict

AgentStateKeys == {"messages", "current_step", "thought", "action", "action_input",
                   "observation", "iteration", "is_complete", "final_result",
                   "claim_decision"}

\* the names under which the state holds something
HeldKeys ==
    AgentStateKeys \cup DOMAIN final_result \cup DOMAIN claim_decision
        \cup DOMAIN action_input \cup DOMAIN messages[1]

\* C13: the observe step of a cycle that executed a non-finish stage keeps
\* the observation the stage returned, raises the iteration counter by
\* exactly one, and leaves a state that holds the stage's structured output
\* under the stage's name.
C13_CycleKeepsStageOutput ==
    [][(pc = "observe" /\ action \in KnownActions \ {"finish"}) =>
            /\ observation' = observation
            /\ iteration' = iteration + 1
            /\ action \in HeldKeys']_vars

\* C14: a second execution of decide in a run replaces the decision record
\* with its own result (nothing of the first is kept or merged), and with
\* the same reply of the decision LLM it gives the same record as the first.
C14_SecondDecideReplaces ==
    (called.fn = "decide_twice" /\ ~called.second.raised) =>
        /\ called.second.claim_decision =
                make_decision(Get(called.action_input, "claim_json", EmptyDict),
                              called.second_llm).value
        /\ called.second_llm = called.first_llm =>
                called.second.claim_decision = called.first.claim_decision

C14_Witness ==
    /\ called.fn = "decide_twice"
    /\ ~called.second.raised
    /\ called.first.claim_decision.decision = "approve"
    /\ called.second.claim_decision.decision = "reject"

\* C15: _parse_decision returns approve, reject or query, and returns query
\* for every text that holds both words or neither.
C15_AmbiguousIsQuery ==
    called.fn = "_parse_decision" =>
        /\ called.ret[1] \in Decisions
        /\ (Contains(called.response_text, "approve")
                <=> Contains(called.response_text, "reject")) =>
                    called.ret[1] = "query"

\* the text results that carry a "text" key, by index
Carrying(text_results) ==
    {i \in 1..Len(text_results) : "text" \in DOMAIN text_results[i]}

TranslateCalls(calls) == SelectSeq(calls, LAMBDA c : c[1] = "translate")

\* C16: extract_data translates exactly the text results that carry a "text"
\* key, in their order: translated_text has one entry per such result, none
\* and no translation call when there is no such result, while
\* extracted_text and extracted_tables have one entry per input document.
C16_TranslatesOnlyTextResults ==
    (called.fn = "extract_data" /\ ~called.ret.raised) =>
        LET v == called.ret.value
            texts == RawTexts(v.extracted_text)
        IN /\ Len(v.extracted_text) = Len(called.documents)
           /\ Len(v.extracted_tables) = Len(called.documents)
           /\ Len(v.translated_text) = Cardinality(Carrying(v.extracted_text))
           /\ Len(TranslateCalls(called.ret.calls)) = Len(v.translated_text)
           /\ \A k \in 1..Len(v.translated_text) :
                TranslateCalls(called.ret.calls)[k][2] = texts[k]
           /\ Carrying(v.extracted_text) = {} =>
                v.translated_text = <<>> /\ TranslateCalls(called.ret.calls) = <<>>

\* two documents of which only the second gave a text: translated_text[1]
\* is the translation of document 2
C16_Witness ==
    /\ called.fn = "extract_data"
    /\ ~called.ret.raised
    /\ Len(called.documents) = 2
    /\ Carrying(called.ret.value.extracted_text) = {2}
    /\ Len(called.ret.value.translated_text) = 1
    /\ "text" \in DOMAIN called.ret.value.translated_text[1]

\* C17: a JSON object without an "action" key makes think_node propose
\* finish, and the run ends in that cycle as an explicit finish; a missing
\* "action_input" is an empty mapping to which act_node adds the run's files.
\* (thought = "" with action = "finish" is the parse of the object {}.)
C17_NoActionFinishes ==
    /\ (pc = "observe" /\ thought = "" /\ action = "finish") =>
            action_input = [files |-> messages[1].files]
    /\ (pc \in {"END", "returned"} /\ thought = "" /\ action = "finish") =>
            /\ is_complete
            /\ Status(final_result) = "complete"
            /\ action_input = [files |-> messages[1].files]

====
